---- MODULE Spec2Model ----
(***************************************************************************)
(* Model of the store of the Acadeemia add-on shop:                        *)
(*   - the order-intake edge function                                      *)
(*       supabase/functions/process-store-order/index.ts                   *)
(*   - the tables it writes                                                *)
(*       supabase/migrations/20250709130918_dark_gate.sql                  *)
(*   - the admin dashboard                                                 *)
(*       src/components/dashboard/StoreManager.tsx                         *)
(* The handler is cut at its awaits: one action per database call, with    *)
(* the synchronous code that follows the call up to the next await.        *)
(***************************************************************************)
EXTENDS Integers, Sequences, FiniteSets, TLC

(***************************************************************************)
(* Bounds of the model.                                                    *)
(***************************************************************************)
MaxItems == 2

\* Order rows the tables hold at most.
MaxOrders == 2

AddonIds == {"a1", "a2"}

OrderIds == 1..MaxOrders

(***************************************************************************)
(* Strings are sequences of one-character strings.                         *)
(***************************************************************************)
Digits36 ==
  << "0", "1", "2", "3", "4", "5", "6", "7", "8", "9",
     "a", "b", "c", "d", "e", "f", "g", "h", "i", "j", "k", "l", "m",
     "n", "o", "p", "q", "r", "s", "t", "u", "v", "w", "x", "y", "z" >>

Upper36 ==
  << "0", "1", "2", "3", "4", "5", "6", "7", "8", "9",
     "A", "B", "C", "D", "E", "F", "G", "H", "I", "J", "K", "L", "M",
     "N", "O", "P", "Q", "R", "S", "T", "U", "V", "W", "X", "Y", "Z" >>

Range(s) == {s[i] : i \in 1..Len(s)}

Min(a, b) == IF a < b THEN a ELSE b

\* Math.random() returns a double in [0, 1).  The model draws the dyadic
\* fractions k / RandDenominator.
RandDenominator == 2^10

RandomValues == {0, 1, 512}

\* Date.now(): milliseconds since the epoch.
Timestamps == {9, 10}

\* Number.prototype.toString(10) of a non-negative integer.
RECURSIVE Decimal(_)
Decimal(n) ==
  IF n < 10 THEN << Digits36[n + 1] >>
  ELSE Decimal(n \div 10) \o << Digits36[(n % 10) + 1] >>

\* The digits after the point of k / RandDenominator in base 36.
RECURSIVE FracDigits36(_)
FracDigits36(k) ==
  IF k = 0 THEN << >>
  ELSE << Digits36[((k * 36) \div RandDenominator) + 1] >>
         \o FracDigits36((k * 36) % RandDenominator)

\* Number.prototype.toString(36) of k / RandDenominator.
ToString36(k) ==
  IF k = 0 THEN << "0" >> ELSE << "0", "." >> \o FracDigits36(k)

\* String.prototype.substr(start, length), start counted from 0.
Substr(s, start, length) ==
  SubSeq(s, start + 1, Min(Len(s), start + length))

\* String.prototype.toUpperCase on the characters toString(36) produces.
ToUpperCase(s) ==
  [i \in 1..Len(s) |->
     IF \E d \in 1..36 : Digits36[d] = s[i]
       THEN Upper36[CHOOSE d \in 1..36 : Digits36[d] = s[i]]
       ELSE s[i]]

\* Math.random().toString(36).substr(2, 5).toUpperCase()
RandomSuffix(k) == ToUpperCase(Substr(ToString36(k), 2, 5))

\* `ORD-${Date.now()}-${...}`
OrderNumber(now, k) ==
  << "O", "R", "D", "-" >> \o Decimal(now) \o << "-" >> \o RandomSuffix(k)

(***************************************************************************)
(* Requests.  A request has a method and a body; the body is not JSON, the *)
(* JSON value null, or a JSON object whose fields are present or absent.   *)
(***************************************************************************)
NullItem ==
  [null |-> TRUE, addon_id |-> "a1", addon_name |-> "n1", quantity |-> 1,
   unit_price |-> 0, total_price |-> 0]

Item(a, q) ==
  [null |-> FALSE, addon_id |-> a,
   addon_name |-> IF a = "a1" THEN "n1" ELSE "n2",
   quantity |-> q, unit_price |-> 5, total_price |-> 5 * q]

ItemValues == {NullItem, Item("a1", 1), Item("a2", 2)}

ItemLists == UNION {[1..n -> ItemValues] : n \in 0..MaxItems}

ItemsMissing == [kind |-> "missing", list |-> << >>]
ItemsNonArray == [kind |-> "nonarray", list |-> << >>]
ItemsArray(l) == [kind |-> "array", list |-> l]

Post(json, name, email, items, totals) ==
  [method |-> "POST", json |-> json, customer_name |-> name,
   customer_email |-> email, items |-> items, has_totals |-> totals,
   total_amount |-> IF totals THEN 10 ELSE 0]

Preflight ==
  [method |-> "OPTIONS", json |-> "invalid", customer_name |-> FALSE,
   customer_email |-> FALSE, items |-> ItemsMissing, has_totals |-> FALSE,
   total_amount |-> 0]

ItemsValues ==
  {ItemsMissing, ItemsNonArray} \cup {ItemsArray(l) : l \in ItemLists}

Requests ==
  {Preflight,
   Post("invalid", FALSE, FALSE, ItemsMissing, FALSE),
   Post("null", FALSE, FALSE, ItemsMissing, FALSE)}
  \cup {Post("object", n, e, it, TRUE) :
          n \in BOOLEAN, e \in BOOLEAN, it \in ItemsValues}
  \cup {Post("object", TRUE, TRUE, it, FALSE) : it \in ItemsValues}

(***************************************************************************)
(* State.                                                                  *)
(***************************************************************************)
VARIABLES
  store_addons,       \* table store_addons: id -> row
  store_orders,       \* table store_orders: id -> row
  store_order_items,  \* table store_order_items: the rows, in insertion order
  next_order_id,      \* the next id gen_random_uuid() hands to store_orders
  env_key,            \* Deno.env.get('MAILERSEND_API_KEY') is a non-empty string
  inv,                \* the handler invocations: locals, position, response
  dash,               \* the StoreManager component of each admin session
  tog,                \* history: each session's last run of publish toggles
  api                 \* the last request of a direct database client, answered

vars ==
  << store_addons, store_orders, store_order_items, next_order_id, env_key,
     inv, dash, tog, api >>

clients == << dash, tog, api >>

db == << store_addons, store_orders, store_order_items, next_order_id >>

(***************************************************************************)
(* Responses of the handler.                                               *)
(***************************************************************************)
NoResponse ==
  [status |-> 0, kind |-> "none", order_id |-> 0, order_number |-> << >>,
   email_sent |-> FALSE]

\* A handler that answers only POST.
MethodNotAllowed ==
  [status |-> 405, kind |-> "error", order_id |-> 0, order_number |-> << >>,
   email_sent |-> FALSE]

\* new Response(null, { headers: corsHeaders })
PreflightResponse ==
  [status |-> 200, kind |-> "preflight", order_id |-> 0,
   order_number |-> << >>, email_sent |-> FALSE]

ErrorResponse(status) ==
  [status |-> status, kind |-> "error", order_id |-> 0,
   order_number |-> << >>, email_sent |-> FALSE]

SuccessResponse(order_id, orderNumber, emailSent) ==
  [status |-> 200, kind |-> "success", order_id |-> order_id,
   order_number |-> orderNumber, email_sent |-> emailSent]

IdleInvocation ==
  [pc |-> "idle", req |-> Preflight, orderNumber |-> << >>, order_id |-> 0,
   next_item |-> 0, log |-> << >>, rpc_calls |-> << >>, resp |-> NoResponse]

\* return new Response(...): the invocation ends.
Respond(r, resp) ==
  [r EXCEPT !.pc = "done", !.resp = resp, !.log = Append(@, "respond")]

Logged(r, entry) == [r EXCEPT !.log = Append(@, entry)]

(***************************************************************************)
(* The handler, up to the order insert.                                    *)
(***************************************************************************)
\* await req.json() rejects, or reading a field of the parsed body throws.
BodyThrows(req) == req.json \in {"invalid", "null"}

\* !customer_name || !customer_email || !items || items.length === 0
MissingRequiredFields(req) ==
  \/ ~req.customer_name
  \/ ~req.customer_email
  \/ req.items.kind = "missing"
  \/ (req.items.kind = "array" /\ Len(req.items.list) = 0)

Request(h, req) ==
  /\ inv[h].pc = "idle"
  /\ LET r == [inv[h] EXCEPT !.req = req] IN
     \/ /\ req.method = "OPTIONS"
        /\ inv' = [inv EXCEPT ![h] = Respond(r, PreflightResponse)]
     \/ /\ req.method # "OPTIONS"
        /\ BodyThrows(req)
        /\ inv' = [inv EXCEPT ![h] = Respond(r, ErrorResponse(500))]
     \/ /\ req.method # "OPTIONS"
        /\ ~BodyThrows(req)
        /\ MissingRequiredFields(req)
        /\ inv' = [inv EXCEPT ![h] = Respond(r, ErrorResponse(400))]
     \/ /\ req.method # "OPTIONS"
        /\ ~BodyThrows(req)
        /\ ~MissingRequiredFields(req)
        /\ \E now \in Timestamps, k \in RandomValues :
             inv' = [inv EXCEPT ![h] =
                       [r EXCEPT !.pc = "insert_order",
                                 !.orderNumber = OrderNumber(now, k)]]
  /\ UNCHANGED << db, env_key, clients >>

(***************************************************************************)
(* The tables, as the migration declares them.                             *)
(***************************************************************************)
\* A column without its UNIQUE index.
NotUnique(orders, number) == TRUE

\* order_number text UNIQUE NOT NULL
OrderNumberUnique(orders, number) ==
  \A id \in DOMAIN orders : orders[id].order_number # number

\* order_id REFERENCES store_orders(id), addon_id REFERENCES store_addons(id)
ItemsForeignKeysHold(orders, addons, rows) ==
  \A i \in 1..Len(rows) :
    rows[i].order_id \in DOMAIN orders /\ rows[i].addon_id \in DOMAIN addons

\* delete from store_orders where id = ...
DeleteOrder(orders, id) == [o \in DOMAIN orders \ {id} |-> orders[o]]

\* A foreign key without ON DELETE CASCADE that is not enforced.
NoCascade(items, id) == items

\* order_id ... ON DELETE CASCADE
CascadeDeleteItems(items, id) ==
  SelectSeq(items, LAMBDA row : row.order_id # id)

\* select ... from store_order_items where order_id = ...
ItemRowsOf(items, id) == SelectSeq(items, LAMBDA row : row.order_id = id)

\* An addon_id column without its REFERENCES.
AddonUnchecked(items, id) == TRUE

\* addon_id uuid REFERENCES store_addons(id): no add-on with items goes.
AddonUnreferenced(items, id) ==
  \A i \in 1..Len(items) : items[i].addon_id # id

\* rpc increment_download_count(addon_id)
IncrementDownloadCount(addons, id) ==
  IF id \in DOMAIN addons
    THEN [addons EXCEPT ![id].download_count = @ + 1]
    ELSE addons

(***************************************************************************)
(* The handler: the order insert.                                          *)
(***************************************************************************)
\* An insert that records the order as paid and in processing.
OrderRowPaid(r) ==
  [order_number |-> r.orderNumber, order_status |-> "processing",
   payment_status |-> "paid", total_amount |-> r.req.total_amount]

\* .from('store_orders').insert({...})
OrderRow(r) ==
  [order_number |-> r.orderNumber, order_status |-> "pending",
   payment_status |-> "pending", total_amount |-> r.req.total_amount]

\* orderData.items.map(item => ({order_id: order.id, addon_id: item.addon_id, ...}))
\* throws when items has no map method or an entry is null.
MapThrows(items) ==
  \/ items.kind # "array"
  \/ \E i \in 1..Len(items.list) : items.list[i].null

\* Item rows that all go to the first order of the table.
OrderItemsOfFirstOrder(order_id, list) ==
  [i \in 1..Len(list) |->
     [order_id |-> 1, addon_id |-> list[i].addon_id,
      addon_name |-> list[i].addon_name, quantity |-> list[i].quantity,
      unit_price |-> list[i].unit_price, total_price |-> list[i].total_price]]

\* Item rows that take the name and the price of the add-on's row.
OrderItemsFromCatalogue(order_id, list) ==
  [i \in 1..Len(list) |->
     LET known == list[i].addon_id \in DOMAIN store_addons IN
     [order_id |-> order_id, addon_id |-> list[i].addon_id,
      addon_name |-> IF known THEN store_addons[list[i].addon_id].name
                              ELSE list[i].addon_name,
      quantity |-> list[i].quantity,
      unit_price |-> IF known THEN store_addons[list[i].addon_id].price
                              ELSE list[i].unit_price,
      total_price |-> list[i].total_price]]

OrderItems(order_id, list) ==
  [i \in 1..Len(list) |->
     [order_id |-> order_id, addon_id |-> list[i].addon_id,
      addon_name |-> list[i].addon_name, quantity |-> list[i].quantity,
      unit_price |-> list[i].unit_price, total_price |-> list[i].total_price]]


\* A handler that does not return on orderError.
AfterOrderInsertNoReturn(r, ok, id) ==
  [Logged(r, IF ok THEN "order_insert_ok" ELSE "order_insert_err")
     EXCEPT !.order_id = IF ok THEN id ELSE 0,
            !.pc = IF MapThrows(r.req.items) THEN "rollback" ELSE "insert_items"]

\* if (orderError) return 500; otherwise build the item rows.
AfterOrderInsert(r, ok, id) ==
  IF ~ok
    THEN Respond(Logged(r, "order_insert_err"), ErrorResponse(500))
    ELSE LET s == [Logged(r, "order_insert_ok") EXCEPT !.order_id = id] IN
         IF MapThrows(r.req.items)
           THEN Respond(s, ErrorResponse(500))
           ELSE [s EXCEPT !.pc = "insert_items"]

InsertOrder(h) ==
  /\ inv[h].pc = "insert_order"
  /\ \E ok \in BOOLEAN :
       /\ ok => OrderNumberUnique(store_orders, inv[h].orderNumber)
       /\ store_orders' =
            IF ok THEN store_orders @@ (next_order_id :> OrderRow(inv[h]))
                  ELSE store_orders
       /\ next_order_id' = IF ok THEN next_order_id + 1 ELSE next_order_id
       /\ inv' = [inv EXCEPT ![h] = AfterOrderInsert(inv[h], ok, next_order_id)]
  /\ UNCHANGED << store_addons, store_order_items, env_key, clients >>

(***************************************************************************)
(* The handler: the item insert and the compensating delete.               *)
(***************************************************************************)

\* A handler that does not look at itemsError.
AfterItemsInsertIgnoringError(r, ok) ==
  [Logged(r, IF ok THEN "items_insert_ok" ELSE "items_insert_err")
     EXCEPT !.pc = "increment", !.next_item = 1]

\* if (itemsError) { delete the order; return 500 }
AfterItemsInsert(r, ok) ==
  IF ok
    THEN [Logged(r, "items_insert_ok") EXCEPT !.pc = "increment", !.next_item = 1]
    ELSE [Logged(r, "items_insert_err") EXCEPT !.pc = "rollback"]

InsertItems(h) ==
  /\ inv[h].pc = "insert_items"
  /\ LET rows == OrderItems(inv[h].order_id, inv[h].req.items.list) IN
     \E ok \in BOOLEAN :
       /\ ok => ItemsForeignKeysHold(store_orders, store_addons, rows)
       /\ store_order_items' =
            IF ok THEN store_order_items \o rows ELSE store_order_items
       /\ inv' = [inv EXCEPT ![h] = AfterItemsInsert(inv[h], ok)]
  /\ UNCHANGED << store_addons, store_orders, next_order_id, env_key, clients >>

\* await supabase.from('store_orders').delete().eq('id', order.id): the
\* result is not looked at.
AfterRollback(r, ok) ==
  Respond(Logged(r, IF ok THEN "delete_ok" ELSE "delete_err"),
          ErrorResponse(500))

Rollback(h) ==
  /\ inv[h].pc = "rollback"
  /\ \E ok \in BOOLEAN :
       /\ store_orders' =
            IF ok THEN DeleteOrder(store_orders, inv[h].order_id)
                  ELSE store_orders
       /\ store_order_items' =
            IF ok THEN CascadeDeleteItems(store_order_items, inv[h].order_id)
                  ELSE store_order_items
       /\ inv' = [inv EXCEPT ![h] = AfterRollback(inv[h], ok)]
  /\ UNCHANGED << store_addons, next_order_id, env_key, clients >>

(***************************************************************************)
(* The handler: the download counts, the email and the response.           *)
(***************************************************************************)

\* A loop that ends after its first pass.
AfterIncrementOnlyFirst(r, ok) ==
  [Logged(r, IF ok THEN "rpc_ok" ELSE "rpc_err")
     EXCEPT !.rpc_calls = Append(@, r.req.items.list[r.next_item].addon_id),
            !.pc = "email"]

\* A loop that an rpc error ends.
AfterIncrementStopOnError(r, ok) ==
  LET s == [Logged(r, IF ok THEN "rpc_ok" ELSE "rpc_err")
              EXCEPT !.rpc_calls =
                       Append(@, r.req.items.list[r.next_item].addon_id)] IN
  IF ok /\ r.next_item < Len(r.req.items.list)
    THEN [s EXCEPT !.next_item = @ + 1]
    ELSE [s EXCEPT !.pc = "email"]

\* for (const item of orderData.items) await supabase.rpc(...)
AfterIncrement(r, ok) ==
  LET s == [Logged(r, IF ok THEN "rpc_ok" ELSE "rpc_err")
              EXCEPT !.rpc_calls =
                       Append(@, r.req.items.list[r.next_item].addon_id)] IN
  IF r.next_item < Len(r.req.items.list)
    THEN [s EXCEPT !.next_item = @ + 1]
    ELSE [s EXCEPT !.pc = "email"]

Increment(h) ==
  /\ inv[h].pc = "increment"
  /\ \E ok \in BOOLEAN :
       /\ store_addons' =
            IF ok
              THEN IncrementDownloadCount(
                     store_addons,
                     inv[h].req.items.list[inv[h].next_item].addon_id)
              ELSE store_addons
       /\ inv' = [inv EXCEPT ![h] = AfterIncrement(inv[h], ok)]
  /\ UNCHANGED << store_orders, store_order_items, next_order_id, env_key, clients >>

\* The outcomes of the email step:
\*   email_no_key       MAILERSEND_API_KEY is not set, nothing is tried
\*   email_build_throw  building the HTML throws (a total is undefined)
\*   email_fetch_throw  fetch() is called and rejects
\*   email_not_ok       fetch() is called, the provider answers non-ok
\*   email_ok           fetch() is called, the provider answers ok
EmailOutcomes(key, req) ==
  IF ~key THEN {"email_no_key"}
  ELSE IF ~req.has_totals THEN {"email_build_throw"}
  ELSE {"email_fetch_throw", "email_not_ok", "email_ok"}


\* emailSent set on any answer of the provider.
EmailSentOnAnyAnswer(outcome) == outcome \in {"email_ok", "email_not_ok"}

\* let emailSent = false; ... if (response.ok) emailSent = true
EmailSent(outcome) == outcome = "email_ok"


\* An email step without its try/catch: the outer catch answers 500.
AfterEmailRethrowing(r, outcome) ==
  Respond(Logged(r, outcome),
          IF outcome \in {"email_build_throw", "email_fetch_throw"}
            THEN ErrorResponse(500)
            ELSE SuccessResponse(r.order_id, r.orderNumber, outcome = "email_ok"))

\* The try/catch around the email swallows every exception; the success
\* response follows.
AfterEmail(r, outcome) ==
  Respond(Logged(r, outcome),
          SuccessResponse(r.order_id, r.orderNumber, EmailSent(outcome)))

Email(h) ==
  /\ inv[h].pc = "email"
  /\ \E outcome \in EmailOutcomes(env_key, inv[h].req) :
       inv' = [inv EXCEPT ![h] = AfterEmail(inv[h], outcome)]
  /\ UNCHANGED << db, env_key, clients >>

(***************************************************************************)
(* The admin dashboard: the state of one StoreManager component.           *)
(***************************************************************************)
NoFetch == [stage |-> "none", addonsData |-> << >>]

\* useState(...): empty lists, zero stats, loading; the effect of the first
\* render has called fetchStoreData, whose add-on query is in flight.
InitialComponent ==
  [loading |-> TRUE, addons |-> << >>, orders |-> << >>,
   stats |-> [totalAddons |-> 0, publishedAddons |-> 0, totalOrders |-> 0,
              totalRevenue |-> 0, pendingOrders |-> 0],
   fetch |-> [stage |-> "addons", addonsData |-> << >>], calls |-> << >>]

NoToggles ==
  [addon |-> "none", count |-> 0, db0 |-> FALSE, loc0 |-> FALSE,
   clean |-> FALSE]

\* No direct client has asked anything yet.
NoApi == [cmd |-> "none"]

(***************************************************************************)
(* Initial states and the specification of one handler invocation.         *)
(***************************************************************************)
InitAddons ==
  [a \in AddonIds |->
     [name |-> IF a = "a1" THEN "n1" ELSE "n2",
      slug |-> IF a = "a1" THEN "s1" ELSE "s2", price |-> 5,
      is_published |-> TRUE, download_count |-> 0]]

\* An order placed earlier.
PriorOrder ==
  [order_number |-> OrderNumber(9, 1), order_status |-> "pending",
   payment_status |-> "pending", total_amount |-> 10]

Init ==
  /\ store_addons = InitAddons
  /\ \/ /\ store_orders = << >>
        /\ store_order_items = << >>
        /\ next_order_id = 1
     \/ /\ store_orders = (1 :> PriorOrder)
        /\ store_order_items = OrderItems(1, << Item("a1", 2) >>)
        /\ next_order_id = 2
  /\ env_key \in BOOLEAN
  /\ inv = [h \in {"h1"} |-> IdleInvocation]
  /\ dash = << >>
  /\ tog = << >>
  /\ api = NoApi

HandlerStep(h) ==
  \/ \E req \in Requests : Request(h, req)
  \/ InsertOrder(h)
  \/ InsertItems(h)
  \/ Rollback(h)
  \/ Increment(h)
  \/ Email(h)

\* One invocation of the handler.
Next == HandlerStep("h1")

Spec == Init /\ [][Next]_vars

(***************************************************************************)
(* The admin dashboard: fetchStoreData.                                    *)
(***************************************************************************)
RECURSIVE SumOver(_, _)
SumOver(f, ids) ==
  IF ids = {} THEN 0
  ELSE LET id == CHOOSE x \in ids : TRUE
       IN  f[id].total_amount + SumOver(f, ids \ {id})

\* select *, items:store_order_items(...) from store_orders
OrdersWithItems ==
  [id \in DOMAIN store_orders |->
     [order_number |-> store_orders[id].order_number,
      order_status |-> store_orders[id].order_status,
      payment_status |-> store_orders[id].payment_status,
      total_amount |-> store_orders[id].total_amount,
      items |-> ItemRowsOf(store_order_items, id)]]

\* Stats whose revenue counts the completed orders only.
StatsOfCompletedOrders(addonsData, ordersData) ==
  [totalAddons |-> Cardinality(DOMAIN addonsData),
   publishedAddons |->
     Cardinality({a \in DOMAIN addonsData : addonsData[a].is_published}),
   totalOrders |-> Cardinality(DOMAIN ordersData),
   totalRevenue |->
     SumOver(ordersData, {o \in DOMAIN ordersData :
                            ordersData[o].order_status = "completed"}),
   pendingOrders |->
     Cardinality({o \in DOMAIN ordersData :
                    ordersData[o].order_status = "pending"})]

\* Calculate stats
Stats(addonsData, ordersData) ==
  [totalAddons |-> Cardinality(DOMAIN addonsData),
   publishedAddons |->
     Cardinality({a \in DOMAIN addonsData : addonsData[a].is_published}),
   totalOrders |-> Cardinality(DOMAIN ordersData),
   totalRevenue |-> SumOver(ordersData, DOMAIN ordersData),
   pendingOrders |->
     Cardinality({o \in DOMAIN ordersData :
                    ordersData[o].order_status = "pending"})]

\* A fetch that puts the add-ons into the list before it asks for the orders.
FetchAddonsSettingList(s) ==
  /\ dash[s].fetch.stage = "addons"
  /\ \E ok \in BOOLEAN :
       dash' = [dash EXCEPT
                  ![s].fetch = IF ok
                                 THEN [stage |-> "orders", addonsData |-> store_addons]
                                 ELSE NoFetch,
                  ![s].addons = IF ok THEN store_addons ELSE @,
                  ![s].loading = IF ok THEN @ ELSE FALSE]
  /\ UNCHANGED << db, env_key, inv, tog, api >>

\* The add-on query returns; on an error the catch logs it and finally
\* clears the loading flag.
FetchAddons(s) ==
  /\ dash[s].fetch.stage = "addons"
  /\ \E ok \in BOOLEAN :
       dash' = [dash EXCEPT
                  ![s].fetch = IF ok
                                 THEN [stage |-> "orders", addonsData |-> store_addons]
                                 ELSE NoFetch,
                  ![s].loading = IF ok THEN @ ELSE FALSE]
  /\ UNCHANGED << db, env_key, inv, tog, api >>

\* The order query returns: setAddons, setOrders, setStats, and finally
\* setLoading(false).
FetchOrders(s) ==
  /\ dash[s].fetch.stage = "orders"
  /\ \E ok \in BOOLEAN :
       /\ dash' = [dash EXCEPT
                     ![s].fetch = NoFetch,
                     ![s].loading = FALSE,
                     ![s].addons = IF ok THEN dash[s].fetch.addonsData ELSE @,
                     ![s].orders = IF ok THEN OrdersWithItems ELSE @,
                     ![s].stats = IF ok THEN Stats(dash[s].fetch.addonsData,
                                                   OrdersWithItems)
                                        ELSE @]
       /\ tog' = [t \in DOMAIN tog |->
                   IF t = s /\ ok THEN NoToggles ELSE tog[t]]
  /\ UNCHANGED << db, env_key, inv, api >>

(***************************************************************************)
(* The admin dashboard: handleTogglePublish.                               *)
(***************************************************************************)
\* A publish value that ignores the current one.
AlwaysPublished(currentStatus) == TRUE

\* !currentStatus
Toggled(currentStatus) == ~currentStatus

\* update store_addons set is_published = ... where id = ...
UpdatePublished(addons, id, value) ==
  IF id \in DOMAIN addons
    THEN [addons EXCEPT ![id].is_published = value]
    ELSE addons

\* History of the toggles of a session whose history is kept: a run starts with a call made while
\* no other call of the session is in flight and goes on with the next call
\* on the same add-on.  db0 and loc0 are the flag in the database and in the
\* local list before the first call; the run is clean as long as the list
\* showed the database's value before the first call, every update of the
\* run succeeded and no other session wrote the add-on.
ToggleHistory(s, a, ok) ==
  LET t == tog[s]
      second == t.addon = a /\ t.count = 1 /\ dash[s].calls = << >>
      first == [addon |-> a, count |-> 0,
                db0 |-> a \in DOMAIN store_addons /\ store_addons[a].is_published,
                loc0 |-> dash[s].addons[a].is_published,
                clean |-> /\ a \in DOMAIN store_addons
                          /\ store_addons[a].is_published
                               = dash[s].addons[a].is_published]
      run == IF second THEN t ELSE first
  IN  IF dash[s].calls # << >> THEN NoToggles
      ELSE [run EXCEPT !.clean = @ /\ ok]

\* The histories after session s has sent an update of add-on a: a write
\* that reaches the database during the run of another session spoils it.
ToggleHistories(s, a, ok) ==
  [t \in DOMAIN tog |->
     IF t = s THEN ToggleHistory(s, a, ok)
     ELSE IF ok /\ tog[t].addon = a THEN [tog[t] EXCEPT !.clean = FALSE]
     ELSE tog[t]]

\* onClick={() => handleTogglePublish(addon.id, addon.is_published)}: the
\* update is sent with the list of the current render in the closure.  At
\* most `limit` calls of the session are in flight.
TogglePublishCall(s, a, limit) ==
  /\ ~dash[s].loading
  /\ a \in DOMAIN dash[s].addons
  /\ Len(dash[s].calls) < limit
  /\ LET currentStatus == dash[s].addons[a].is_published IN
     \E ok \in BOOLEAN :
       /\ store_addons' =
            IF ok THEN UpdatePublished(store_addons, a, Toggled(currentStatus))
                  ELSE store_addons
       /\ dash' = [dash EXCEPT ![s].calls =
                     Append(@, [kind |-> "toggle", id |-> a,
                                value |-> Toggled(currentStatus),
                                addons |-> dash[s].addons, ok |-> ok])]
       /\ tog' = ToggleHistories(s, a, ok)
  /\ UNCHANGED << store_orders, store_order_items, next_order_id, env_key, inv, api >>

RemoveAt(seq, i) == SubSeq(seq, 1, i - 1) \o SubSeq(seq, i + 1, Len(seq))

\* if (error) throw error; setAddons(addons.map(...)) with the closure's list;
\* the catch only logs.
TogglePublishReturn(s, i) ==
  /\ i \in 1..Len(dash[s].calls)
  /\ dash[s].calls[i].kind = "toggle"
  /\ LET call == dash[s].calls[i] IN
     /\ dash' = [dash EXCEPT
                   ![s].calls = RemoveAt(@, i),
                   ![s].addons =
                     IF call.ok
                       THEN [a \in DOMAIN call.addons |->
                               IF a = call.id
                                 THEN [call.addons[a] EXCEPT !.is_published = call.value]
                                 ELSE call.addons[a]]
                       ELSE @]
     /\ tog' = [t \in DOMAIN tog |->
                 IF t = s /\ tog[t].addon = call.id
                   THEN [tog[t] EXCEPT !.count = @ + 1]
                   ELSE tog[t]]
  /\ UNCHANGED << db, env_key, inv, api >>

DashStep(s, limit) ==
  \/ FetchAddons(s)
  \/ FetchOrders(s)
  \/ \E a \in AddonIds : TogglePublishCall(s, a, limit)
  \/ \E i \in 1..limit : TogglePublishReturn(s, i)

DashInit ==
  /\ store_addons = [InitAddons EXCEPT !["a2"].is_published = FALSE]
  /\ store_orders = (1 :> PriorOrder)
  /\ store_order_items = OrderItems(1, << Item("a1", 2) >>)
  /\ next_order_id = 2
  /\ env_key = FALSE
  /\ inv = << >>
  /\ dash = [s \in {"s1", "s2"} |-> InitialComponent]
  /\ tog = [s \in {"s1"} |-> NoToggles]
  /\ api = NoApi

\* Two admin sessions, each using its dashboard one call after the other.
DashNext == DashStep("s1", 1) \/ DashStep("s2", 1)

DashSpec == DashInit /\ [][DashNext]_vars

(***************************************************************************)
(* The admin dashboard: handleUpdateOrderStatus.                           *)
(***************************************************************************)
\* A select that also offers refunded.
DropdownWithRefunded ==
  {"pending", "processing", "completed", "cancelled", "refunded"}

\* <option value="pending"> ... <option value="cancelled">
DropdownStatuses == {"pending", "processing", "completed", "cancelled"}

\* A check that lets no order go back to pending.
OrderStatusCheckNoReopen(status) ==
  status \in {"processing", "completed", "cancelled", "refunded"}

\* A column without its CHECK.
AnyStatus(status) == TRUE

\* CHECK (order_status IN ('pending', 'processing', 'completed', 'cancelled', 'refunded'))
OrderStatusCheck(status) ==
  status \in {"pending", "processing", "completed", "cancelled", "refunded"}

\* CHECK (payment_status IN ('pending', 'paid', 'failed', 'refunded'))
PaymentStatusCheck(status) ==
  status \in {"pending", "paid", "failed", "refunded"}

\* An update that is refused when the row is no longer the one the session
\* fetched.
UpdateIfUnchanged(orders, id, status, fetched) ==
  id \in DOMAIN orders /\ orders[id].order_status = fetched

\* update store_orders set order_status = ... where id = ...: the statement
\* is accepted when the new row passes the CHECK, whatever the row holds.
UpdateAccepted(orders, id, status, fetched) == OrderStatusCheck(status)

UpdateOrderStatus(orders, id, status) ==
  IF id \in DOMAIN orders
    THEN [orders EXCEPT ![id].order_status = status]
    ELSE orders

\* onChange={(e) => handleUpdateOrderStatus(order.id, e.target.value)}: the
\* update is sent with the order list of the current render in the closure.
\* sent is false when the request fails before the database answers.
UpdateOrderStatusCall(s, o, status, limit) ==
  /\ ~dash[s].loading
  /\ o \in DOMAIN dash[s].orders
  /\ Len(dash[s].calls) < limit
  /\ \E sent \in BOOLEAN :
       LET ok == sent /\ UpdateAccepted(store_orders, o, status,
                                        dash[s].orders[o].order_status) IN
       /\ store_orders' =
            IF ok THEN UpdateOrderStatus(store_orders, o, status)
                  ELSE store_orders
       /\ dash' = [dash EXCEPT ![s].calls =
                     Append(@, [kind |-> "status", id |-> o, value |-> status,
                                orders |-> dash[s].orders, sent |-> sent,
                                ok |-> ok])]
  /\ UNCHANGED << store_addons, store_order_items, next_order_id, env_key,
                  inv, tog, api >>

\* if (error) throw error; setOrders(orders.map(...)) with the closure's list;
\* the catch only logs.
UpdateOrderStatusReturn(s, i) ==
  /\ i \in 1..Len(dash[s].calls)
  /\ dash[s].calls[i].kind = "status"
  /\ LET call == dash[s].calls[i] IN
     dash' = [dash EXCEPT
                ![s].calls = RemoveAt(@, i),
                ![s].orders =
                  IF call.ok
                    THEN [o \in DOMAIN call.orders |->
                            IF o = call.id
                              THEN [call.orders[o] EXCEPT !.order_status = call.value]
                              ELSE call.orders[o]]
                    ELSE @]
  /\ UNCHANGED << db, env_key, inv, tog, api >>

\* The select shows the order's status; onChange fires for another option.
SelectStatus(s, o, status, limit) ==
  /\ o \in DOMAIN dash[s].orders
  /\ status # dash[s].orders[o].order_status
  /\ UpdateOrderStatusCall(s, o, status, limit)

OrdersStep(s, limit) ==
  \/ \E o \in OrderIds, status \in DropdownStatuses :
       SelectStatus(s, o, status, limit)
  \/ \E i \in 1..limit : UpdateOrderStatusReturn(s, i)

(***************************************************************************)
(* The admin dashboard: AddonModal.handleSubmit.                           *)
(***************************************************************************)
\* The name an edit gives an add-on.
NewName == "n3"

\* useState({name: addon?.name || '', ...}) and the edits of the form: the
\* model edits the price and the publish flag of an add-on being edited, or
\* its name, and gives a new add-on the name and slug of a free id or of an
\* existing row.
FormsFor(addons, a) ==
  IF a \in DOMAIN addons
    THEN {[name |-> addons[a].name, slug |-> addons[a].slug, price |-> p,
           is_published |-> b] : p \in {5, 7}, b \in BOOLEAN}
         \cup {[name |-> NewName, slug |-> addons[a].slug,
                price |-> addons[a].price,
                is_published |-> addons[a].is_published]}
    ELSE {[name |-> InitAddons[n].name, slug |-> InitAddons[n].slug,
           price |-> 5, is_published |-> FALSE] : n \in AddonIds}

\* Every form the model fills in.
Forms ==
  {[name |-> name, slug |-> InitAddons[n].slug, price |-> p,
    is_published |-> b] :
     name \in {InitAddons[n].name : n \in AddonIds} \cup {NewName},
     n \in AddonIds, p \in {5, 7}, b \in BOOLEAN}

\* slug text UNIQUE NOT NULL
SlugUnique(addons, id, slug) ==
  \A a \in DOMAIN addons \ {id} : addons[a].slug # slug

\* update store_addons set <formData> where id = addon.id
UpdateAddon(addons, id, form) ==
  IF id \in DOMAIN addons
    THEN [addons EXCEPT ![id].name = form.name, ![id].slug = form.slug,
                        ![id].price = form.price,
                        ![id].is_published = form.is_published]
    ELSE addons

\* insert into store_addons (<formData>): id gen_random_uuid(),
\* download_count 0
InsertAddon(addons, id, form) ==
  addons @@ (id :> [name |-> form.name, slug |-> form.slug,
                    price |-> form.price, is_published |-> form.is_published,
                    download_count |-> 0])

\* The statement is refused when it would give two rows the same slug; an
\* update of a row that is gone changes nothing and reports no error.
SubmitAccepted(addons, a, form, edit) ==
  (edit /\ a \notin DOMAIN addons) \/ SlugUnique(addons, a, form.slug)

\* A write of add-on a by another session ends the clean run of toggles.
Spoiled(a, ok) ==
  [t \in DOMAIN tog |->
     IF ok /\ tog[t].addon = a THEN [tog[t] EXCEPT !.clean = FALSE]
     ELSE tog[t]]

\* handleSubmit of the modal opened on add-on a of the current list (Edit),
\* or on no add-on (Add New Add-on: a is the id the database will draw).
\* The form is submitted once the refresh a previous save started is over.
SubmitCall(s, a, form, limit) ==
  /\ ~dash[s].loading
  /\ dash[s].fetch.stage = "none"
  /\ Len(dash[s].calls) < limit
  /\ \/ a \in DOMAIN dash[s].addons /\ form \in FormsFor(dash[s].addons, a)
     \/ /\ a \notin DOMAIN dash[s].addons
        /\ a \notin DOMAIN store_addons
        /\ form \in FormsFor(dash[s].addons, a)
  /\ \E sent \in BOOLEAN :
       LET edit == a \in DOMAIN dash[s].addons
           ok == sent /\ SubmitAccepted(store_addons, a, form, edit) IN
       /\ store_addons' =
            IF ~ok THEN store_addons
            ELSE IF edit THEN UpdateAddon(store_addons, a, form)
            ELSE InsertAddon(store_addons, a, form)
       /\ dash' = [dash EXCEPT ![s].calls =
                     Append(@, [kind |-> "save", id |-> a, value |-> form,
                                edit |-> edit, sent |-> sent, ok |-> ok])]
       /\ tog' = Spoiled(a, ok)
  /\ UNCHANGED << store_orders, store_order_items, next_order_id, env_key,
                  inv, api >>

\* if (error) throw error; onSave(): fetchStoreData() and the modal closes;
\* the catch only logs and the modal stays open.
SubmitReturn(s, i) ==
  /\ i \in 1..Len(dash[s].calls)
  /\ dash[s].calls[i].kind = "save"
  /\ dash' = [dash EXCEPT
                ![s].calls = RemoveAt(@, i),
                ![s].fetch = IF dash[s].calls[i].ok
                               THEN [stage |-> "addons", addonsData |-> << >>]
                               ELSE @]
  /\ UNCHANGED << db, env_key, inv, tog, api >>

ModalStep(s, limit) ==
  \/ \E a \in AddonIds, form \in Forms : SubmitCall(s, a, form, limit)
  \/ \E i \in 1..limit : SubmitReturn(s, i)

(***************************************************************************)
(* The admin dashboard: handleDeleteAddon.                                 *)
(***************************************************************************)
\* delete from store_addons where id = ...
DeleteAddon(addons, id) == [a \in DOMAIN addons \ {id} |-> addons[a]]

\* A delete whose error the handler does not look at.
AfterDeleteIgnoringError(call, addons) ==
  [a \in DOMAIN call.addons \ {call.id} |-> call.addons[a]]

\* if (error) throw error; setAddons(addons.filter(addon => addon.id !== id))
\* with the closure's list; the catch only logs.
AfterDelete(call, addons) ==
  IF call.ok
    THEN [a \in DOMAIN call.addons \ {call.id} |-> call.addons[a]]
    ELSE addons

\* onClick={() => handleDeleteAddon(addon.id)}, confirm() answered with OK:
\* the delete is sent with the list of the current render in the closure.
\* sent is false when the request fails before the database answers; the
\* database refuses to delete an add-on that an order item references.
DeleteAddonCall(s, a, limit) ==
  /\ ~dash[s].loading
  /\ a \in DOMAIN dash[s].addons
  /\ Len(dash[s].calls) < limit
  /\ \E sent \in BOOLEAN :
       LET ok == sent /\ AddonUnreferenced(store_order_items, a) IN
       /\ store_addons' =
            IF ok THEN DeleteAddon(store_addons, a) ELSE store_addons
       /\ dash' = [dash EXCEPT ![s].calls =
                     Append(@, [kind |-> "delete", id |-> a,
                                addons |-> dash[s].addons, sent |-> sent,
                                ok |-> ok])]
       /\ tog' = Spoiled(a, ok)
  /\ UNCHANGED << store_orders, store_order_items, next_order_id, env_key,
                  inv, api >>

DeleteAddonReturn(s, i) ==
  /\ i \in 1..Len(dash[s].calls)
  /\ dash[s].calls[i].kind = "delete"
  /\ dash' = [dash EXCEPT
                ![s].calls = RemoveAt(@, i),
                ![s].addons = AfterDelete(dash[s].calls[i], @)]
  /\ UNCHANGED << db, env_key, inv, tog, api >>

AddonsStep(s, limit) ==
  \/ \E a \in AddonIds : TogglePublishCall(s, a, limit)
  \/ \E i \in 1..limit : TogglePublishReturn(s, i)
  \/ \E a \in AddonIds : DeleteAddonCall(s, a, limit)
  \/ \E i \in 1..limit : DeleteAddonReturn(s, i)

(***************************************************************************)
(* One admin session on a store with two add-ons and two orders: it loads  *)
(* the store, toggles and deletes add-ons and changes order statuses, one  *)
(* handler after the other.                                                *)
(***************************************************************************)
\* A second order placed earlier, already completed.
CompletedOrder ==
  [order_number |-> OrderNumber(10, 1), order_status |-> "completed",
   payment_status |-> "pending", total_amount |-> 7]

\* Both orders bought add-on a1; no order bought a2.
StoreInit ==
  /\ store_addons = [InitAddons EXCEPT !["a2"].is_published = FALSE]
  /\ store_orders = (1 :> PriorOrder) @@ (2 :> CompletedOrder)
  /\ store_order_items = OrderItems(1, << Item("a1", 2) >>)
                           \o OrderItems(2, << Item("a1", 1) >>)
  /\ next_order_id = 3
  /\ env_key = FALSE
  /\ inv = << >>
  /\ dash = [s \in {"s1"} |-> InitialComponent]
  /\ tog = << >>
  /\ api = NoApi

StoreStep(s, limit) ==
  \/ FetchAddons(s)
  \/ FetchOrders(s)
  \/ AddonsStep(s, limit)
  \/ OrdersStep(s, limit)

StoreNext == StoreStep("s1", 1)

StoreSpec == StoreInit /\ [][StoreNext]_vars

\* The same session, starting a handler while another one is in flight:
\* it toggles a1, deletes add-ons and sets orders to processing, with at most
\* two handlers in flight.
OverlapStep(s, limit) ==
  \/ FetchAddons(s)
  \/ FetchOrders(s)
  \/ TogglePublishCall(s, "a1", limit)
  \/ \E i \in 1..limit : TogglePublishReturn(s, i)
  \/ \E a \in AddonIds : DeleteAddonCall(s, a, limit)
  \/ \E i \in 1..limit : DeleteAddonReturn(s, i)
  \/ \E o \in OrderIds : SelectStatus(s, o, "processing", limit)
  \/ \E i \in 1..limit : UpdateOrderStatusReturn(s, i)

OverlapNext == OverlapStep("s1", 2)

OverlapSpec == StoreInit /\ [][OverlapNext]_vars

(***************************************************************************)
(* One admin session that changes order statuses and saves forms.          *)
(***************************************************************************)
AdminInit ==
  /\ store_addons = [a \in {"a1"} |-> InitAddons[a]]
  /\ \E status \in {"pending", "refunded"} :
       store_orders = (1 :> [PriorOrder EXCEPT !.order_status = status])
  /\ store_order_items = OrderItems(1, << Item("a1", 2) >>)
  /\ next_order_id = 2
  /\ env_key = FALSE
  /\ inv = << >>
  /\ dash = [s \in {"s1"} |-> InitialComponent]
  /\ tog = << >>
  /\ api = NoApi

AdminStep(s) ==
  \/ FetchAddons(s)
  \/ FetchOrders(s)
  \/ OrdersStep(s, 1)
  \/ ModalStep(s, 1)

AdminNext == AdminStep("s1")

AdminSpec == AdminInit /\ [][AdminNext]_vars

(***************************************************************************)
(* Two admin sessions that load the store and then write: each session's   *)
(* first statement after its load, up to the answer of the database.  What *)
(* a handler does with the answer touches no table and is left out here.   *)
(***************************************************************************)
WritersInit ==
  /\ store_addons = [a \in {"a1"} |-> InitAddons[a]]
  /\ store_orders = (1 :> PriorOrder)
  /\ store_order_items = OrderItems(1, << Item("a1", 2) >>)
  /\ next_order_id = 2
  /\ env_key = FALSE
  /\ inv = << >>
  /\ dash = [s \in {"s1", "s2"} |-> InitialComponent]
  /\ tog = << >>
  /\ api = NoApi

WriterStep(s) ==
  \/ FetchAddons(s)
  \/ FetchOrders(s)
  \/ \E a \in AddonIds : TogglePublishCall(s, a, 1)
  \/ \E o \in OrderIds, status \in DropdownStatuses : SelectStatus(s, o, status, 1)
  \/ \E a \in AddonIds, form \in Forms : SubmitCall(s, a, form, 1)

WritersNext == WriterStep("s1") \/ WriterStep("s2")

WritersSpec == WritersInit /\ [][WritersNext]_vars

(***************************************************************************)
(* Row-level security: the policies of the migration and the statements of *)
(* a client that talks to the tables directly.                             *)
(***************************************************************************)
\* A caller has the database role of its key or session (anon without a
\* session, authenticated with one); admin: auth.uid() is in super_admins.
Callers ==
  {[role |-> "anon", admin |-> FALSE],
   [role |-> "authenticated", admin |-> FALSE],
   [role |-> "authenticated", admin |-> TRUE]}

Tables == {"store_addons", "store_orders", "store_order_items"}

\* A policy without TO is for every role.
Public == {"anon", "authenticated"}

Policy(table, cmd, roles, using, check) ==
  [table |-> table, cmd |-> cmd, roles |-> roles, using |-> using,
   check |-> check]

\* CREATE POLICY ... ON store_addons / store_orders / store_order_items
Policies ==
  {Policy("store_addons", "SELECT", Public, "published", "none"),
   Policy("store_addons", "ALL", {"authenticated"}, "admin", "admin"),
   Policy("store_orders", "SELECT", {"authenticated"}, "admin", "none"),
   Policy("store_orders", "ALL", {"authenticated"}, "admin", "admin"),
   Policy("store_orders", "INSERT", {"anon"}, "none", "true"),
   Policy("store_order_items", "SELECT", {"authenticated"}, "admin", "none"),
   Policy("store_order_items", "ALL", {"authenticated"}, "admin", "admin"),
   Policy("store_order_items", "INSERT", {"anon"}, "none", "true")}

\* The policy is one of those the statement of the caller is tested against.
Applies(p, c, table, cmd) ==
  p.table = table /\ c.role \in p.roles /\ p.cmd \in {cmd, "ALL"}

\* Policies whose expressions let everybody through.
HoldsForAnyone(expr, c, row) == expr # "none"

\* USING (...) / WITH CHECK (...) evaluated for the caller on a row.
Holds(expr, c, row) ==
  \/ expr = "true"
  \/ expr = "admin" /\ c.admin
  \/ expr = "published" /\ row.is_published

\* Row-level security lets the statement see the existing row.
CanSee(c, table, cmd, row) ==
  \E p \in Policies : Applies(p, c, table, cmd) /\ Holds(p.using, c, row)

\* Row-level security lets the statement write the new row.
CanWrite(c, table, cmd, row) ==
  \E p \in Policies : Applies(p, c, table, cmd) /\ Holds(p.check, c, row)

RowsOf(table) ==
  CASE table = "store_addons" -> store_addons
    [] table = "store_orders" -> store_orders
    [] table = "store_order_items" -> store_order_items

\* select * from <table>: the keys of the rows the caller gets.
SelectedKeys(c, table) ==
  {k \in DOMAIN RowsOf(table) : CanSee(c, table, "SELECT", RowsOf(table)[k])}

\* The rows an update or delete with a where clause on the key can reach.
ReachableKeys(c, table, cmd) ==
  {k \in SelectedKeys(c, table) : CanSee(c, table, cmd, RowsOf(table)[k])}

\* The CHECK, UNIQUE and REFERENCES constraints on a new or changed row.
ConstraintsHold(table, k, row) ==
  CASE table = "store_orders" ->
         /\ OrderStatusCheck(row.order_status)
         /\ PaymentStatusCheck(row.payment_status)
         /\ OrderNumberUnique(DeleteOrder(store_orders, k), row.order_number)
    [] table = "store_order_items" ->
         ItemsForeignKeysHold(store_orders, store_addons, << row >>)
    [] table = "store_addons" -> SlugUnique(store_addons, k, row.slug)

Answer(cmd, c, table, keys, error) ==
  [cmd |-> cmd, caller |-> c, table |-> table, keys |-> keys, error |-> error]

\* The tables after the statement changed table `table` into `rows`.
TablesBecome(table, rows, items) ==
  /\ store_addons' = IF table = "store_addons" THEN rows ELSE store_addons
  /\ store_orders' = IF table = "store_orders" THEN rows ELSE store_orders
  /\ store_order_items' =
       IF table = "store_order_items" THEN rows ELSE items

\* supabase.from(table).select()
ApiSelect(c, table) ==
  /\ api' = Answer("select", c, table, SelectedKeys(c, table), FALSE)
  /\ UNCHANGED << db, env_key, inv, dash, tog >>

\* The columns and values the model's clients write.
OrderWrites ==
  {[table |-> "store_orders", column |-> "order_status", value |-> v] :
     v \in {"refunded", "shipped"}}
  \cup {[table |-> "store_orders", column |-> "payment_status", value |-> v] :
          v \in {"paid", "unpaid"}}

AddonWrites ==
  {[table |-> "store_addons", column |-> "is_published", value |-> v] :
     v \in BOOLEAN}

ItemWrites ==
  {[table |-> "store_order_items", column |-> "quantity", value |-> 2]}

\* The positions of the rows of store_order_items.
ItemKeys == 1..(MaxOrders * MaxItems)

\* supabase.from(table).update({column: value}).eq(key): rows out of reach
\* are skipped without an error; a new row that fails WITH CHECK or a
\* constraint is an error and nothing is written.
ApiUpdate(c, w, k) ==
  /\ k \in DOMAIN RowsOf(w.table)
  /\ LET rows == RowsOf(w.table)
         new == [rows[k] EXCEPT ![w.column] = w.value]
         reached == k \in ReachableKeys(c, w.table, "UPDATE")
         error == reached /\ ~(/\ CanWrite(c, w.table, "UPDATE", new)
                               /\ ConstraintsHold(w.table, k, new)) IN
     /\ TablesBecome(w.table,
                      IF reached /\ ~error THEN [rows EXCEPT ![k] = new]
                                           ELSE rows,
                      store_order_items)
     /\ api' = Answer("update", c, w.table,
                      IF reached /\ ~error THEN {k} ELSE {}, error)
  /\ UNCHANGED << next_order_id, env_key, inv, dash, tog >>

\* supabase.from(table).delete().eq(key)
ApiDelete(c, table, k) ==
  /\ k \in DOMAIN RowsOf(table)
  /\ LET rows == RowsOf(table)
         reached == k \in ReachableKeys(c, table, "DELETE")
         error == /\ reached
                  /\ table = "store_addons"
                  /\ ~AddonUnreferenced(store_order_items, k)
         done == reached /\ ~error IN
     /\ TablesBecome(table,
                      IF ~done THEN rows
                      ELSE IF table = "store_order_items"
                        THEN RemoveAt(rows, k)
                        ELSE [r \in DOMAIN rows \ {k} |-> rows[r]],
                      IF done /\ table = "store_orders"
                        THEN CascadeDeleteItems(store_order_items, k)
                        ELSE store_order_items)
     /\ api' = Answer("delete", c, table, IF done THEN {k} ELSE {}, error)
  /\ UNCHANGED << next_order_id, env_key, inv, dash, tog >>

\* The rows the model's clients insert.
OrderInserts ==
  {[table |-> "store_orders",
    row |-> [order_number |-> OrderNumber(10, 1), order_status |-> status,
             payment_status |-> "pending", total_amount |-> 10]] :
     status \in {"pending", "shipped"}}

ItemInserts ==
  {[table |-> "store_order_items",
    row |-> OrderItems(o, << Item("a1", 1) >>)[1]] : o \in OrderIds}

\* supabase.from(table).insert(row): a row that fails WITH CHECK or a
\* constraint is an error and nothing is written.
ApiInsert(c, ins) ==
  /\ ins.table = "store_orders" => next_order_id <= MaxOrders
  /\ ins.table = "store_order_items"
       => Len(ItemRowsOf(store_order_items, ins.row.order_id)) < MaxItems
  /\ LET rows == RowsOf(ins.table)
         k == IF ins.table = "store_orders" THEN next_order_id
              ELSE Len(store_order_items) + 1
         error == ~(/\ CanWrite(c, ins.table, "INSERT", ins.row)
                    /\ ConstraintsHold(ins.table, k, ins.row)) IN
     /\ TablesBecome(ins.table,
                      IF error THEN rows
                      ELSE IF ins.table = "store_orders"
                        THEN rows @@ (k :> ins.row)
                        ELSE Append(rows, ins.row),
                      store_order_items)
     /\ next_order_id' = IF ~error /\ ins.table = "store_orders"
                           THEN next_order_id + 1 ELSE next_order_id
     /\ api' = Answer("insert", c, ins.table, IF error THEN {} ELSE {k}, error)
  /\ UNCHANGED << env_key, inv, dash, tog >>

\* The statements on store_orders.
OrderApiStep(c) ==
  \/ ApiSelect(c, "store_orders")
  \/ \E w \in OrderWrites, k \in OrderIds : ApiUpdate(c, w, k)
  \/ \E k \in OrderIds : ApiDelete(c, "store_orders", k)
  \/ \E ins \in OrderInserts : ApiInsert(c, ins)

\* The statements on store_addons and store_order_items.
OtherApiStep(c) ==
  \/ \E table \in {"store_addons", "store_order_items"} : ApiSelect(c, table)
  \/ \E w \in AddonWrites, k \in AddonIds : ApiUpdate(c, w, k)
  \/ \E w \in ItemWrites, k \in ItemKeys : ApiUpdate(c, w, k)
  \/ \E k \in AddonIds : ApiDelete(c, "store_addons", k)
  \/ \E k \in ItemKeys : ApiDelete(c, "store_order_items", k)
  \/ \E ins \in ItemInserts : ApiInsert(c, ins)

SuperAdmin == [role |-> "authenticated", admin |-> TRUE]

\* A signed-in user who is no super admin.
Authenticated == [role |-> "authenticated", admin |-> FALSE]

\* The request of the handler next to a direct client.
OneItem ==
  Post("object", TRUE, TRUE, ItemsArray(<< Item("a2", 2) >>), TRUE)

\* An order placed earlier, with its item.
DbInit ==
  /\ store_addons = [InitAddons EXCEPT !["a2"].is_published = FALSE]
  /\ store_orders = (1 :> PriorOrder)
  /\ store_order_items = OrderItems(1, << Item("a1", 2) >>)
  /\ next_order_id = 2
  /\ env_key = FALSE
  /\ inv = [h \in {"h1"} |-> IdleInvocation]
  /\ dash = << >>
  /\ tog = << >>
  /\ api = NoApi

\* A super admin works on store_orders while the handler takes an order.
DbNext ==
  \/ OrderApiStep(SuperAdmin)
  \/ Request("h1", OneItem)
  \/ InsertOrder("h1")
  \/ InsertItems("h1")
  \/ Rollback("h1")
  \/ Increment("h1")
  \/ Email("h1")

DbSpec == DbInit /\ [][DbNext]_vars

RlsInit ==
  /\ store_addons = [InitAddons EXCEPT !["a2"].is_published = FALSE]
  /\ store_orders = (1 :> PriorOrder)
  /\ store_order_items = OrderItems(1, << Item("a1", 2) >>)
  /\ next_order_id = 2
  /\ env_key = FALSE
  /\ inv = << >>
  /\ dash = << >>
  /\ tog = << >>
  /\ api = NoApi

\* The callers that are no super admins, on every table; a super admin reads.
RlsNext ==
  \/ \E c \in Callers \ {SuperAdmin} : OrderApiStep(c) \/ OtherApiStep(c)
  \/ \E table \in Tables : ApiSelect(SuperAdmin, table)

RlsSpec == RlsInit /\ [][RlsNext]_vars

(***************************************************************************)
(* The handler stops between two steps; the dashboard works meanwhile.     *)
(***************************************************************************)
\* One transaction around the handler's statements would undo the order.
RolledBack(orders, id) == DeleteOrder(orders, id)

\* Every statement of the handler is its own transaction: what an earlier
\* statement wrote stays when the invocation ends before its next one.
AfterCrash(orders, id) == orders

\* The invocation is ended (the runtime stops the worker, the time limit is
\* reached) while it awaits a statement's answer or before it sends the next.
Crash(h) ==
  /\ inv[h].pc \in {"insert_order", "insert_items", "rollback", "increment",
                     "email"}
  /\ inv' = [inv EXCEPT ![h].pc = "crashed"]
  /\ store_orders' = AfterCrash(store_orders, inv[h].order_id)
  /\ UNCHANGED << store_addons, store_order_items, next_order_id, env_key,
                  clients >>

SysInit ==
  /\ store_addons = InitAddons
  /\ store_orders = << >>
  /\ store_order_items = << >>
  /\ next_order_id = 1
  /\ env_key = FALSE
  /\ inv = [h \in {"h1"} |-> IdleInvocation]
  /\ dash = [s \in {"s1"} |-> InitialComponent]
  /\ tog = << >>
  /\ api = NoApi

SysHandlerStep(h) ==
  \/ Request(h, OneItem)
  \/ InsertOrder(h)
  \/ InsertItems(h)
  \/ Rollback(h)
  \/ Increment(h)
  \/ Email(h)
  \/ Crash(h)

\* An invocation that may stop anywhere, and an admin session that loads
\* the store and changes order statuses.
SysNext ==
  \/ SysHandlerStep("h1")
  \/ FetchAddons("s1")
  \/ FetchOrders("s1")
  \/ OrdersStep("s1", 1)

SysSpec == SysInit /\ [][SysNext]_vars

(***************************************************************************)
(* An order for add-on a1 is taken while an admin session edits, toggles   *)
(* and deletes add-ons.                                                    *)
(***************************************************************************)
OrderOfA1 ==
  Post("object", TRUE, TRUE, ItemsArray(<< Item("a1", 1) >>), TRUE)

\* The forms the session saves: a1 renamed, the renamed a1 at another price.
SnapshotForms ==
  {[name |-> NewName, slug |-> InitAddons["a1"].slug, price |-> p,
    is_published |-> TRUE] : p \in {5, 7}}

SnapshotInit ==
  /\ store_addons = [a \in {"a1"} |-> InitAddons[a]]
  /\ store_orders = << >>
  /\ store_order_items = << >>
  /\ next_order_id = 1
  /\ env_key = FALSE
  /\ inv = [h \in {"h1"} |-> IdleInvocation]
  /\ dash = [s \in {"s1"} |-> InitialComponent]
  /\ tog = << >>
  /\ api = NoApi

SnapshotNext ==
  \/ Request("h1", OrderOfA1)
  \/ InsertOrder("h1")
  \/ InsertItems("h1")
  \/ Rollback("h1")
  \/ Increment("h1")
  \/ Email("h1")
  \/ FetchAddons("s1")
  \/ FetchOrders("s1")
  \/ TogglePublishCall("s1", "a1", 1)
  \/ TogglePublishReturn("s1", 1)
  \/ \E form \in SnapshotForms : SubmitCall("s1", "a1", form, 1)
  \/ SubmitReturn("s1", 1)

SnapshotSpec == SnapshotInit /\ [][SnapshotNext]_vars

(***************************************************************************)
(* One admin session that loads the store and saves forms; every save that *)
(* succeeds calls fetchStoreData again.  A query that was sent is          *)
(* answered, with rows or with an error.                                   *)
(***************************************************************************)
RefreshNext ==
  \/ FetchAddons("s1")
  \/ FetchOrders("s1")
  \/ ModalStep("s1", 1)

RefreshSpec ==
  /\ AdminInit
  /\ [][RefreshNext]_vars
  /\ WF_vars(FetchAddons("s1"))
  /\ WF_vars(FetchOrders("s1"))

(***************************************************************************)
(* Two invocations of the handler at the same time.                        *)
(***************************************************************************)
TwoItems ==
  Post("object", TRUE, TRUE, ItemsArray(<< Item("a1", 1), Item("a2", 2) >>), TRUE)

ConcInit ==
  /\ store_addons = InitAddons
  /\ store_orders = << >>
  /\ store_order_items = << >>
  /\ next_order_id = 1
  /\ env_key = FALSE
  /\ inv = [h \in {"h1", "h2"} |-> IdleInvocation]
  /\ dash = << >>
  /\ tog = << >>
  /\ api = NoApi

ConcHandlerStep(h) ==
  \/ \E req \in {OneItem, TwoItems} : Request(h, req)
  \/ InsertOrder(h)
  \/ InsertItems(h)
  \/ Rollback(h)
  \/ Increment(h)
  \/ Email(h)

ConcNext == ConcHandlerStep("h1") \/ ConcHandlerStep("h2")

ConcSpec == ConcInit /\ [][ConcNext]_vars

(***************************************************************************)
(* Properties of the order-intake handler.                                 *)
(***************************************************************************)
Done(h) == inv[h].pc = "done"

InLog(h, entry) == \E i \in 1..Len(inv[h].log) : inv[h].log[i] = entry

ItemsOf(id) == ItemRowsOf(store_order_items, id)

RpcEntries == {"rpc_ok", "rpc_err"}

FetchEntries == {"email_fetch_throw", "email_not_ok", "email_ok"}

EmailEntries == FetchEntries \cup {"email_no_key", "email_build_throw"}

\* A POST whose JSON body lacks a required field or has an empty item list.
LacksRequiredField(req) ==
  /\ req.method = "POST"
  /\ req.json \in {"null", "object"}
  /\ \/ ~req.customer_name
     \/ ~req.customer_email
     \/ req.items.kind = "missing"
     \/ (req.items.kind = "array" /\ Len(req.items.list) = 0)

\* C1: every request whose JSON body has no customer_name, no
\* customer_email, no items or an empty items list is answered with status
\* 400 and an {error} body.
C1_MissingFieldsAnswered400 ==
  \A h \in DOMAIN inv :
    (Done(h) /\ LacksRequiredField(inv[h].req))
      => (inv[h].resp.status = 400 /\ inv[h].resp.kind = "error")

\* C2: if the order insert succeeds and the item insert then fails, the
\* handler responds 500 and, once it has responded, the order row it created
\* no longer exists in store_orders.
C2_FailedItemsLeaveNoOrder ==
  \A h \in DOMAIN inv :
    (Done(h) /\ InLog(h, "order_insert_ok") /\ InLog(h, "items_insert_err"))
      => (inv[h].resp.status = 500 /\ inv[h].order_id \notin DOMAIN store_orders)

\* ^ORD-[0-9]+-[A-Z0-9]{5}$
DecimalDigits == {Digits36[d] : d \in 1..10}

UpperAlphanumerics == Range(Upper36)

WellFormedOrderNumber(s) ==
  /\ Len(s) >= 11
  /\ SubSeq(s, 1, 4) = << "O", "R", "D", "-" >>
  /\ \A i \in 5..(Len(s) - 6) : s[i] \in DecimalDigits
  /\ s[Len(s) - 5] = "-"
  /\ \A i \in (Len(s) - 4)..Len(s) : s[i] \in UpperAlphanumerics

\* C3: every 200 response that reports an order carries an order_number of
\* the form ORD-<one or more decimal digits>-<exactly 5 characters, each an
\* uppercase letter or a digit>, whatever the timestamp and the random value.
C3_OrderNumberWellFormed ==
  \A h \in DOMAIN inv :
    inv[h].resp.kind = "success" => WellFormedOrderNumber(inv[h].resp.order_number)

\* C4: whenever the handler responds 200 with success true, the store_orders
\* row with the returned order_id and order_number is persisted together with
\* one store_order_items row per entry of the payload's items list, each
\* referencing that order.
C4_SuccessMeansPersisted ==
  \A h \in DOMAIN inv :
    inv[h].resp.kind = "success" =>
      /\ inv[h].resp.status = 200
      /\ inv[h].resp.order_id \in DOMAIN store_orders
      /\ store_orders[inv[h].resp.order_id].order_number = inv[h].resp.order_number
      /\ ItemsOf(inv[h].resp.order_id)
           = OrderItems(inv[h].resp.order_id, inv[h].req.items.list)

C4_Witness ==
  \E h \in DOMAIN inv :
    /\ inv[h].resp.kind = "success"
    /\ Len(inv[h].req.items.list) = 2
    /\ Cardinality(DOMAIN store_orders) = 2

NumberBefore(log, i, entries) ==
  Cardinality({j \in 1..(i - 1) : log[j] \in entries})

\* C5: within one invocation the item insert is attempted only after the
\* order insert succeeded, counter increments only after the item insert
\* succeeded, the email step only after all increments were attempted, and
\* the response is sent last.
C5_StepsInOrder ==
  \A h \in DOMAIN inv :
    LET log == inv[h].log IN
    \A i \in 1..Len(log) :
      /\ log[i] \in {"items_insert_ok", "items_insert_err"}
           => NumberBefore(log, i, {"order_insert_ok"}) = 1
      /\ log[i] \in RpcEntries
           => NumberBefore(log, i, {"items_insert_ok"}) = 1
      /\ log[i] \in EmailEntries
           => NumberBefore(log, i, RpcEntries) = Len(inv[h].req.items.list)
      /\ log[i] = "respond" => (i = Len(log) /\ Done(h))
      /\ Done(h) => log[Len(log)] = "respond"

C5_Witness ==
  \E h \in DOMAIN inv :
    /\ Done(h)
    /\ Len(inv[h].req.items.list) = 2
    /\ inv[h].log = << "order_insert_ok", "items_insert_ok", "rpc_ok", "rpc_err",
                       "email_ok", "respond" >>

\* C6: if the order insert fails, the handler responds 500 and performs no
\* item insert, no compensating delete, no counter increment and no email
\* call.
C6_OrderInsertFailureStops ==
  \A h \in DOMAIN inv :
    InLog(h, "order_insert_err") =>
      /\ Done(h)
      /\ inv[h].resp = ErrorResponse(500)
      /\ inv[h].log = << "order_insert_err", "respond" >>
      /\ inv[h].rpc_calls = << >>
      /\ ItemsOf(inv[h].order_id) = << >>

C6_Witness ==
  \E h \in DOMAIN inv :
    /\ InLog(h, "order_insert_err")
    /\ Len(inv[h].req.items.list) = 2
    /\ env_key

\* C7: once the order and its items are persisted, no outcome of the email
\* step (missing API key, non-ok provider response, an exception while
\* building or sending the email) changes the response status from 200 or
\* removes the persisted rows.
C7_EmailNeverFailsRequest ==
  \A h \in DOMAIN inv :
    (Done(h) /\ InLog(h, "items_insert_ok")) =>
      /\ \E e \in EmailEntries : InLog(h, e)
      /\ inv[h].resp.status = 200
      /\ inv[h].order_id \in DOMAIN store_orders
      /\ Len(ItemsOf(inv[h].order_id)) = Len(inv[h].req.items.list)

C7_Witness ==
  \E h \in DOMAIN inv :
    /\ Done(h)
    /\ InLog(h, "email_fetch_throw")
    /\ inv[h].resp.status = 200

\* C8: the email provider is called only when MAILERSEND_API_KEY is
\* configured, and email_sent of a 200 response is true exactly when the call
\* was made and the provider answered with an ok status.
C8_EmailSentIffProviderOk ==
  \A h \in DOMAIN inv :
    /\ (\E e \in FetchEntries : InLog(h, e)) => env_key
    /\ inv[h].resp.kind = "success"
         => (inv[h].resp.email_sent <=> InLog(h, "email_ok"))

C8_Witness ==
  \E h \in DOMAIN inv :
    inv[h].resp.kind = "success" /\ inv[h].resp.email_sent

\* C9: after a successful item insert the handler calls
\* increment_download_count once for each entry of the items list, whatever
\* the quantities, and an increment that returns an error neither changes the
\* 200 response nor stops the remaining increments nor undoes the order.
C9_OneIncrementPerItem ==
  \A h \in DOMAIN inv :
    (Done(h) /\ InLog(h, "items_insert_ok")) =>
      /\ inv[h].rpc_calls
           = [i \in 1..Len(inv[h].req.items.list) |->
                inv[h].req.items.list[i].addon_id]
      /\ inv[h].resp.status = 200
      /\ inv[h].order_id \in DOMAIN store_orders
      /\ Len(ItemsOf(inv[h].order_id)) = Len(inv[h].req.items.list)

C9_Witness ==
  \E h \in DOMAIN inv :
    /\ Done(h)
    /\ Len(inv[h].req.items.list) = 2
    /\ inv[h].req.items.list[1].quantity = 2
    /\ inv[h].req.items.list[2].quantity = 2
    /\ \E i \in 1..Len(inv[h].log) :
         inv[h].log[i] = "rpc_err" /\ inv[h].log[i + 1] = "rpc_ok"

\* A step adds order rows only by a handler's insert, as pending and unpaid,
\* and no step of a handler changes a row that exists.
OrdersInsertedPending ==
  \A id \in DOMAIN store_orders' :
    IF id \in DOMAIN store_orders
      THEN store_orders'[id] # store_orders[id] => inv' = inv
      ELSE /\ store_orders'[id].order_status = "pending"
           /\ store_orders'[id].payment_status = "pending"
           /\ \E h \in DOMAIN inv :
                /\ inv[h].pc = "insert_order"
                /\ inv'[h].order_id = id
                /\ InLog(h, "order_insert_ok")'

\* C13: every order row is created by the intake handler with order_status
\* 'pending' and payment_status 'pending', and the handler never updates an
\* order row after inserting it (it only inserts it, or deletes it as
\* compensation).
C13_OrdersCreatedPending == [][OrdersInsertedPending]_vars

C13_Witness ==
  \E h \in DOMAIN inv : \E s \in DOMAIN dash :
    /\ inv[h].resp.kind = "success"
    /\ inv[h].order_id \in DOMAIN dash[s].orders
    /\ dash[s].orders[inv[h].order_id].order_status = "pending"
    /\ store_orders[inv[h].order_id].order_status = "completed"
    /\ store_orders[inv[h].order_id].payment_status = "pending"

\* The invocation stopped after its order insert succeeded and before an
\* item insert succeeded or the compensating delete was sent.
StoppedHalfway(h) ==
  /\ inv[h].pc = "crashed"
  /\ InLog(h, "order_insert_ok")
  /\ ~InLog(h, "items_insert_ok")

\* C15: the order insert, the item insert and the compensating delete are not
\* atomic: once the handler has stopped after the order insert and before the
\* item insert completed, or after a failed item insert and before the
\* compensating delete, its order row is in store_orders without items in
\* every later state: no later step of the handler or the dashboard removes
\* it.
C15_StoppedHandlerLeavesOrder ==
  \A h \in DOMAIN inv :
    StoppedHalfway(h) =>
      /\ inv[h].order_id \in DOMAIN store_orders
      /\ ItemsOf(inv[h].order_id) = << >>

C15_Witness ==
  \E h \in DOMAIN inv : \E s \in DOMAIN dash :
    /\ StoppedHalfway(h)
    /\ InLog(h, "items_insert_err")
    /\ inv[h].order_id \in DOMAIN dash[s].orders
    /\ dash[s].orders[inv[h].order_id].items = << >>
    /\ dash[s].orders[inv[h].order_id].order_status = "cancelled"
    /\ dash[s].calls = << >>

NoSharedOrderNumber ==
  \A a \in DOMAIN store_orders : \A b \in DOMAIN store_orders :
    store_orders[a].order_number = store_orders[b].order_number => a = b

NumberTaken(number) ==
  \E id \in DOMAIN store_orders : store_orders[id].order_number = number

\* An order insert sent with a number that a row already has is refused: the
\* handler answers 500 and the table stays as it is.
CollisionRefused ==
  \A h \in DOMAIN inv :
    (/\ inv[h].pc = "insert_order"
     /\ inv'[h].pc # "insert_order"
     /\ NumberTaken(inv[h].orderNumber))
      => /\ inv'[h].resp = ErrorResponse(500)
         /\ inv'[h].pc = "done"
         /\ store_orders' = store_orders

\* C16: no two rows of store_orders ever share an order_number, also under
\* concurrent handler invocations: when a generated order_number collides
\* with an existing one the order insert is rejected, the handler responds
\* 500 and no second row is created.
C16_OrderNumbersUnique == []NoSharedOrderNumber /\ [][CollisionRefused]_vars

C16_Witness ==
  /\ inv["h1"].resp.kind = "success"
  /\ inv["h2"].pc = "done"
  /\ inv["h2"].orderNumber = inv["h1"].orderNumber
  /\ inv["h2"].log = << "order_insert_err", "respond" >>
  /\ inv["h2"].resp.status = 500
  /\ DOMAIN store_orders = {inv["h1"].order_id}

\* The rows of order id are the entries of list, in order.
HoldsItemsOf(id, list) ==
  LET rows == ItemsOf(id) IN
  /\ Len(rows) = Len(list)
  /\ \A i \in 1..Len(rows) :
       /\ rows[i].addon_id = list[i].addon_id
       /\ rows[i].addon_name = list[i].addon_name
       /\ rows[i].quantity = list[i].quantity
       /\ rows[i].unit_price = list[i].unit_price
       /\ rows[i].total_price = list[i].total_price

\* C17: concurrent handler invocations do not interfere: under every
\* interleaving each invocation that responds 200 has created one order row
\* of its own, with its order number and exactly its own payload's items, and
\* two invocations that respond 200, also with identical payloads, have
\* created two distinct orders.
C17_InvocationsDoNotInterfere ==
  \A h \in DOMAIN inv :
    inv[h].resp.kind = "success" =>
      /\ inv[h].resp.order_id \in DOMAIN store_orders
      /\ store_orders[inv[h].resp.order_id].order_number = inv[h].orderNumber
      /\ HoldsItemsOf(inv[h].resp.order_id, inv[h].req.items.list)
      /\ \A g \in DOMAIN inv \ {h} :
           inv[g].resp.kind = "success"
             => inv[g].resp.order_id # inv[h].resp.order_id

C17_Witness ==
  /\ inv["h1"].resp.kind = "success"
  /\ inv["h2"].resp.kind = "success"
  /\ inv["h1"].req = inv["h2"].req
  /\ Len(inv["h1"].req.items.list) = 2
  /\ inv["h1"].resp.order_id = 2
  /\ inv["h2"].resp.order_id = 1
  /\ Len(store_order_items) = 4
  /\ store_order_items[1].order_id = 2

(***************************************************************************)
(* Properties of the admin dashboard.                                      *)
(***************************************************************************)
\* Session s shows order o and none of its handlers is running.
ShowsOrder(s, o) ==
  /\ ~dash[s].loading
  /\ dash[s].calls = << >>
  /\ o \in DOMAIN dash[s].orders
  /\ o \in DOMAIN store_orders

\* handleUpdateOrderStatus runs and the database takes the new status.
StatusTaken(s, o, status) ==
  UpdateOrderStatusCall(s, o, status, 1) /\ store_orders'[o].order_status = status

\* C11: handleUpdateOrderStatus accepts every status value the dropdown
\* offers from every current order status: whatever status the order has in
\* the list and in the database, the call can be made and the database takes
\* the value; neither the client nor the database rejects a transition.
C11_EveryStatusAccepted ==
  \A s \in DOMAIN dash : \A o \in OrderIds : \A status \in DropdownStatuses :
    ShowsOrder(s, o) => ENABLED StatusTaken(s, o, status)

C11_Witness ==
  \E s \in DOMAIN dash :
    /\ Len(dash[s].calls) = 1
    /\ dash[s].calls[1].kind = "status"
    /\ dash[s].calls[1].ok
    /\ dash[s].calls[1].value = "pending"
    /\ dash[s].calls[1].orders[1].order_status = "completed"
    /\ store_orders[1].order_status = "pending"

TwiceToggled(s) == tog[s].count = 2 /\ dash[s].calls = << >>

BackToStart(s) ==
  /\ tog[s].addon \in DOMAIN store_addons
  /\ store_addons[tog[s].addon].is_published = tog[s].db0
  /\ tog[s].addon \in DOMAIN dash[s].addons
  /\ dash[s].addons[tog[s].addon].is_published = tog[s].loc0

\* The statement session s sends in this step, if it sends one.
Sends(s) == Len(dash'[s].calls) = Len(dash[s].calls) + 1

Sent(s) == dash'[s].calls[Len(dash'[s].calls)]

\* A statement that reaches the database is accepted and its value is in the
\* row afterwards, whatever the row held.
WriteLands ==
  \A s \in DOMAIN dash :
    Sends(s) =>
      CASE Sent(s).kind = "toggle" ->
             Sent(s).ok
               => store_addons'[Sent(s).id].is_published = Sent(s).value
        [] Sent(s).kind = "status" ->
             Sent(s).sent
               => /\ Sent(s).ok
                  /\ store_orders'[Sent(s).id].order_status = Sent(s).value
        [] Sent(s).kind = "save" ->
             (Sent(s).sent /\ Sent(s).edit)
               => /\ Sent(s).ok
                  /\ store_addons'[Sent(s).id].price = Sent(s).value.price
                  /\ store_addons'[Sent(s).id].is_published
                       = Sent(s).value.is_published

\* C18: when two admin sessions write the same add-on or the same order
\* (publish toggle, status change, form save of an edited add-on) from the
\* same previously fetched state, both writes are accepted without any
\* conflict error and the database ends with the value of the later write:
\* every statement that reaches the database is accepted and leaves its value
\* in the row.
C18_LaterWriteWins == [][WriteLands]_vars

C18_Witness ==
  /\ Len(dash["s1"].calls) = 1
  /\ Len(dash["s2"].calls) = 1
  /\ dash["s1"].calls[1].kind = "status"
  /\ dash["s2"].calls[1].kind = "status"
  /\ dash["s1"].calls[1].orders = dash["s2"].calls[1].orders
  /\ dash["s1"].calls[1].ok
  /\ dash["s2"].calls[1].ok
  /\ dash["s1"].calls[1].value = "completed"
  /\ dash["s2"].calls[1].value = "cancelled"
  /\ store_orders[1].order_status = "cancelled"

OrderStatusEnum ==
  {"pending", "processing", "completed", "cancelled", "refunded"}

PaymentStatusEnum == {"pending", "paid", "failed", "refunded"}

StatusesInEnums ==
  \A id \in DOMAIN store_orders :
    /\ store_orders[id].order_status \in OrderStatusEnum
    /\ store_orders[id].payment_status \in PaymentStatusEnum

\* The write puts a value outside the enumerations into a status column.
OutsideEnums(column, value) ==
  \/ column = "order_status" /\ value \notin OrderStatusEnum
  \/ column = "payment_status" /\ value \notin PaymentStatusEnum

Rejected == api'.error /\ store_orders' = store_orders

OtherValuesRejected ==
  /\ \A w \in OrderWrites : \A k \in OrderIds :
       (/\ api'.cmd = "update"
        /\ UNCHANGED inv
        /\ OutsideEnums(w.column, w.value)
        /\ ApiUpdate(SuperAdmin, w, k))
         => Rejected
  /\ \A ins \in OrderInserts :
       (/\ api'.cmd = "insert"
        /\ UNCHANGED inv
        /\ OutsideEnums("order_status", ins.row.order_status)
        /\ ApiInsert(SuperAdmin, ins))
         => Rejected

C14_ItemsReferenceAnOrder ==
  \A i \in 1..Len(store_order_items) :
    store_order_items[i].order_id \in DOMAIN store_orders

C14_Witness ==
  \E h \in DOMAIN inv :
    /\ InLog(h, "items_insert_ok")
    /\ api.cmd = "delete"
    /\ api.keys = {inv[h].order_id}
    /\ inv[h].order_id \notin DOMAIN store_orders
    /\ ItemsOf(inv[h].order_id) = << >>
    /\ ItemsOf(1) # << >>

ReadsFiltered ==
  (api.cmd = "select" /\ ~api.caller.admin) =>
    CASE api.table = "store_addons" ->
           api.keys = {a \in DOMAIN store_addons : store_addons[a].is_published}
      [] api.table = "store_orders" -> api.keys = {}
      [] api.table = "store_order_items" -> api.keys = {}

\* An update or delete of a caller who is no super admin changes no table.
NonAdminsChangeNothing ==
  (api'.cmd \in {"update", "delete"} /\ ~api'.caller.admin) =>
    /\ api'.keys = {}
    /\ UNCHANGED db

\* C19: under the row-level-security policies a caller whose identity is not
\* in super_admins can never update or delete a row of store_addons,
\* store_orders or store_order_items and can never read an order or order
\* item, and can read a store_addons row only while its is_published flag is
\* true.
C19_NonAdminsConfined == []ReadsFiltered /\ [][NonAdminsChangeNothing]_vars

C19_Witness ==
  /\ api.cmd = "update"
  /\ api.table = "store_addons"
  /\ api.caller = Authenticated
  /\ api.keys = {}
  /\ ~api.error
  /\ DOMAIN store_orders = {1, 2}
  /\ Len(store_order_items) = 2
  /\ store_addons["a1"].is_published
  /\ ~store_addons["a2"].is_published

\* The key the table gives the next inserted row.
NextKey(table) ==
  IF table = "store_orders" THEN next_order_id ELSE Len(store_order_items) + 1

\* C20: under the row-level-security policies an authenticated caller who is
\* not a super admin can insert rows into store_orders and store_order_items:
\* an insert of such a caller whose row passes the constraints of the table is
\* not answered with an error.
C20_AuthenticatedCanInsert ==
  [][\A ins \in OrderInserts \cup ItemInserts :
       (/\ ApiInsert(Authenticated, ins)
        /\ ConstraintsHold(ins.table, NextKey(ins.table), ins.row))
         => ~api'.error]_vars

(***************************************************************************)
(* Properties of the overview statistics.                                  *)
(***************************************************************************)
\* The sum of total_amount over the orders with an id up to n.
RECURSIVE RevenueUpTo(_, _)
RevenueUpTo(orders, n) ==
  IF n = 0 THEN 0
  ELSE (IF n \in DOMAIN orders THEN orders[n].total_amount ELSE 0)
         + RevenueUpTo(orders, n - 1)

\* The stats are the aggregates of the two lists.
StatsAreAggregates(stats, addons, orders) ==
  /\ stats.totalAddons = Cardinality(DOMAIN addons)
  /\ stats.publishedAddons
       = Cardinality({a \in DOMAIN addons : addons[a].is_published})
  /\ stats.totalOrders = Cardinality(DOMAIN orders)
  /\ stats.totalRevenue = RevenueUpTo(orders, next_order_id)
  /\ stats.pendingOrders
       = Cardinality({o \in DOMAIN orders : orders[o].order_status = "pending"})

\* The order query of session s returns without an error in this step: the
\* lists become the rows the two queries fetched.
FetchSucceeds(s) ==
  /\ dash[s].fetch.stage = "orders"
  /\ dash'[s].fetch.stage = "none"
  /\ dash'[s].addons = dash[s].fetch.addonsData
  /\ dash'[s].orders = OrdersWithItems

StatsOfFetchedRows ==
  \A s \in DOMAIN dash :
    FetchSucceeds(s) =>
      StatsAreAggregates(dash'[s].stats, dash[s].fetch.addonsData,
                         OrdersWithItems)

\* C21: after a fetchStoreData call in which both queries succeed, the stats
\* equal the aggregates of the fetched rows: totalAddons is the number of
\* add-ons, publishedAddons the number with is_published true, totalOrders
\* the number of orders, totalRevenue the sum of total_amount over all orders
\* of every status, and pendingOrders the number with order_status 'pending'.
C21_StatsOfFetchedRows == [][StatsOfFetchedRows]_vars

C21_Witness ==
  \E s \in DOMAIN dash :
    /\ ~dash[s].loading
    /\ dash[s].calls = << >>
    /\ DOMAIN dash[s].orders = {1, 2}
    /\ dash[s].orders[1].order_status = "pending"
    /\ dash[s].orders[2].order_status = "completed"
    /\ dash[s].stats = [totalAddons |-> 2, publishedAddons |-> 1,
                        totalOrders |-> 2, totalRevenue |-> 17,
                        pendingOrders |-> 1]

(***************************************************************************)
(* Properties of the order items.                                          *)
(***************************************************************************)
\* The item rows of the invocation's order carry the name and the prices of
\* the payload's entries.
SnapshotKept(h) ==
  LET rows == ItemsOf(inv[h].order_id)
      list == inv[h].req.items.list IN
  /\ Len(rows) = Len(list)
  /\ \A i \in 1..Len(rows) :
       /\ rows[i].addon_name = list[i].addon_name
       /\ rows[i].unit_price = list[i].unit_price
       /\ rows[i].total_price = list[i].total_price

ItemsHoldPayload ==
  \A h \in DOMAIN inv : InLog(h, "items_insert_ok") => SnapshotKept(h)

\* A step of the dashboard writes no order item.
DashboardKeepsItems ==
  dash' # dash => store_order_items' = store_order_items

\* C22: the addon_name, unit_price and total_price stored in an order item
\* are the values sent in the order payload and stay unchanged by every later
\* dashboard operation on the add-on (form save of name or price, publish
\* toggle).
C22_ItemsKeepSnapshot == []ItemsHoldPayload /\ [][DashboardKeepsItems]_vars

C22_Witness ==
  \E h \in DOMAIN inv :
    /\ inv[h].resp.kind = "success"
    /\ store_addons["a1"].name = NewName
    /\ store_addons["a1"].price = 7
    /\ ~store_addons["a1"].is_published
    /\ ItemsOf(inv[h].order_id)[1].addon_name = "n1"
    /\ ItemsOf(inv[h].order_id)[1].unit_price = 5
    /\ \E s \in DOMAIN dash :
         /\ dash[s].calls = << >>
         /\ inv[h].order_id \in DOMAIN dash[s].orders
         /\ dash[s].addons["a1"].name = NewName
         /\ dash[s].addons["a1"].price = 7
         /\ ~dash[s].addons["a1"].is_published

(***************************************************************************)
(* Properties of the handler's answers that are no success.                *)
(***************************************************************************)
\* The invocation answered an OPTIONS request: status 200 with nothing but
\* the CORS headers, and the response is the only thing it did.
PreflightAnswered(h) ==
  /\ inv[h].resp.status = 200
  /\ inv[h].resp.kind = "preflight"
  /\ inv[h].log = << "respond" >>
  /\ inv[h].rpc_calls = << >>
  /\ inv[h].order_id = 0

PreflightsAnswered ==
  \A h \in DOMAIN inv :
    (inv[h].pc # "idle" /\ inv[h].req.method = "OPTIONS")
      => (Done(h) /\ PreflightAnswered(h))

\* The step that takes an OPTIONS request writes no table.
PreflightWritesNothing ==
  \A h \in DOMAIN inv :
    (inv[h].pc = "idle" /\ inv'[h].pc # "idle"
       /\ inv'[h].req.method = "OPTIONS")
      => UNCHANGED db

\* C23: a request with method OPTIONS is answered with the CORS headers
\* without reading the body and causes no database write, no counter
\* increment and no email call.
C23_PreflightOnlyAnswers ==
  []PreflightsAnswered /\ [][PreflightWritesNothing]_vars

C23_Witness ==
  \E h \in DOMAIN inv :
    /\ Done(h)
    /\ inv[h].req.method = "OPTIONS"
    /\ inv[h].req.json = "invalid"
    /\ inv[h].resp.kind = "preflight"
    /\ env_key
    /\ DOMAIN store_orders = {1}

\* No row the invocation created is in the tables.
NoRowOf(h) ==
  \/ inv[h].order_id = 0
  \/ /\ inv[h].order_id \notin DOMAIN store_orders
     /\ ItemsOf(inv[h].order_id) = << >>

\* C24: every handler invocation that ends with a non-200 response (400 or
\* 500, including the outer catch reached by an exception after the order
\* insert, e.g. an items value that is not an array) leaves the database
\* without any order or order-item row created by that invocation.
C24_FailureLeavesNoRows ==
  \A h \in DOMAIN inv :
    (Done(h) /\ inv[h].resp.status \in {400, 500}) => NoRowOf(h)

(***************************************************************************)
(* Properties of the dashboard's local lists.                              *)
(***************************************************************************)
\* No fetch and no handler of session s is under way.
AtRest(s) ==
  /\ ~dash[s].loading
  /\ dash[s].fetch.stage = "none"
  /\ dash[s].calls = << >>

\* C25: after any sequence of dashboard operations (fetch, publish toggle,
\* add-on delete, order status change) the stats shown on the overview equal
\* the aggregates of the add-on and order lists currently held in the
\* component's state.
C25_StatsFollowLists ==
  \A s \in DOMAIN dash :
    AtRest(s) => StatsAreAggregates(dash[s].stats, dash[s].addons, dash[s].orders)

\* A handler of session s returns in this step: call i leaves the calls in
\* flight.
Returns(s, i) ==
  /\ i \in 1..Len(dash[s].calls)
  /\ dash'[s].calls = RemoveAt(dash[s].calls, i)

\* The return of a successful handler leaves in the lists what they showed
\* of the other rows: the statuses of the other orders, the publish flags of
\* the other add-ons, and no add-on that was gone from the list.
KeepsOtherChanges(s, call) ==
  /\ call.kind = "status" =>
       \A o \in DOMAIN dash[s].orders \ {call.id} :
         /\ o \in DOMAIN dash'[s].orders
         /\ dash'[s].orders[o].order_status = dash[s].orders[o].order_status
  /\ call.kind \in {"toggle", "delete"} =>
       /\ DOMAIN dash'[s].addons \subseteq DOMAIN dash[s].addons
       /\ \A a \in DOMAIN dash'[s].addons \ {call.id} :
            dash'[s].addons[a].is_published = dash[s].addons[a].is_published

BothChangesShown ==
  \A s \in DOMAIN dash : \A i \in 1..Len(dash[s].calls) :
    (Returns(s, i) /\ dash[s].calls[i].ok)
      => KeepsOtherChanges(s, dash[s].calls[i])

\* C26: when two dashboard write handlers of one session overlap (the second
\* is started before the first one's database call returns) and both
\* succeed, the local lists afterwards reflect both changes: e.g. two status
\* changes on different orders are both visible, and a deleted add-on does
\* not reappear after a concurrent publish toggle of another add-on.  The
\* handler that returns second keeps what the first one put into the lists.
C26_OverlappingChangesBothShown == [][BothChangesShown]_vars

\* The return of a handler whose database write was answered with an error
\* leaves both lists as they are.
ErrorKeepsLists ==
  \A s \in DOMAIN dash : \A i \in 1..Len(dash[s].calls) :
    (Returns(s, i) /\ ~dash[s].calls[i].ok)
      => /\ dash'[s].addons = dash[s].addons
         /\ dash'[s].orders = dash[s].orders

\* Every add-on and order the session shows is in the database with the
\* publish flag and the order status shown.
ListsShowDatabase(s) ==
  /\ \A a \in DOMAIN dash[s].addons :
       /\ a \in DOMAIN store_addons
       /\ dash[s].addons[a].is_published = store_addons[a].is_published
  /\ \A o \in DOMAIN dash[s].orders :
       /\ o \in DOMAIN store_orders
       /\ dash[s].orders[o].order_status = store_orders[o].order_status

ListsInStep == \A s \in DOMAIN dash : AtRest(s) => ListsShowDatabase(s)

\* C27: when the database write of handleTogglePublish,
\* handleUpdateOrderStatus or handleDeleteAddon returns an error, the local
\* add-on and order lists are left unchanged; consequently, for a single
\* admin session with non-overlapping operations, each locally shown
\* is_published and order_status equals the database value after every
\* operation.
C27_ErrorsLeaveListsInStep == []ListsInStep /\ [][ErrorKeepsLists]_vars

C27_Witness ==
  \E s \in DOMAIN dash :
    /\ Len(dash[s].calls) = 1
    /\ dash[s].calls[1].kind = "delete"
    /\ dash[s].calls[1].id = "a1"
    /\ dash[s].calls[1].sent
    /\ ~dash[s].calls[1].ok
    /\ "a1" \in DOMAIN store_addons
    /\ "a2" \notin DOMAIN store_addons
    /\ DOMAIN dash[s].addons = {"a1"}
    /\ ~dash[s].addons["a1"].is_published
    /\ dash[s].orders[1].order_status = "cancelled"
    /\ store_orders[1].order_status = "cancelled"

(***************************************************************************)
(* Properties of the order statuses under the handler and the dashboard.   *)
(***************************************************************************)
NeverRefundedNorPaid ==
  \A id \in DOMAIN store_orders :
    /\ store_orders[id].order_status # "refunded"
    /\ store_orders[id].payment_status = "pending"

\* A step of the dashboard changes nothing of store_orders but the
\* order_status of rows.
DashboardWritesOnlyStatus ==
  dash' # dash =>
    /\ DOMAIN store_orders' = DOMAIN store_orders
    /\ \A id \in DOMAIN store_orders :
         [store_orders'[id] EXCEPT !.order_status = store_orders[id].order_status]
           = store_orders[id]

\* C28: through any sequence of handler invocations and dashboard
\* operations, no order's order_status ever becomes 'refunded' and no order's
\* payment_status ever differs from 'pending': the status dropdown offers
\* only pending, processing, completed and cancelled, and
\* handleUpdateOrderStatus writes no field other than order_status.
C28_NeverRefundedNorPaid ==
  []NeverRefundedNorPaid /\ [][DashboardWritesOnlyStatus]_vars

C28_Witness ==
  \E h \in DOMAIN inv : \E s \in DOMAIN dash :
    /\ inv[h].resp.kind = "success"
    /\ dash[s].calls = << >>
    /\ inv[h].order_id \in DOMAIN dash[s].orders
    /\ dash[s].orders[inv[h].order_id].order_status = "cancelled"
    /\ store_orders[inv[h].order_id].order_status = "cancelled"
    /\ store_orders[inv[h].order_id].payment_status = "pending"

(***************************************************************************)
(* Properties of handleDeleteAddon.                                        *)
(***************************************************************************)
\* An order item has the add-on's id in its addon_id.
Referenced(a) ==
  \E i \in 1..Len(store_order_items) : store_order_items[i].addon_id = a

\* The delete of a referenced add-on that reaches the database is refused
\* and changes no table.
ReferencedDeleteRefused ==
  \A s \in DOMAIN dash :
    (/\ Sends(s)
     /\ Sent(s).kind = "delete"
     /\ Sent(s).sent
     /\ Referenced(Sent(s).id))
      => /\ ~Sent(s).ok
         /\ UNCHANGED << store_addons, store_order_items >>

\* handleDeleteAddon, back from the refused delete, leaves the add-on list.
RefusedDeleteKeepsList ==
  \A s \in DOMAIN dash : \A i \in 1..Len(dash[s].calls) :
    (/\ Returns(s, i)
     /\ dash[s].calls[i].kind = "delete"
     /\ Referenced(dash[s].calls[i].id))
      => /\ dash'[s].addons = dash[s].addons
         /\ UNCHANGED << store_addons, store_order_items >>

\* C29: deleting an add-on that is referenced by at least one order item is
\* rejected by the database (the addon_id foreign key has no cascade), and
\* handleDeleteAddon then leaves the add-on in the database, the order items
\* and the local add-on list unchanged.
C29_ReferencedAddonStays ==
  [][ReferencedDeleteRefused /\ RefusedDeleteKeepsList]_vars

C29_Witness ==
  \E s \in DOMAIN dash :
    /\ Len(dash[s].calls) = 1
    /\ dash[s].calls[1].kind = "delete"
    /\ dash[s].calls[1].sent
    /\ ~dash[s].calls[1].ok
    /\ Referenced(dash[s].calls[1].id)
    /\ DOMAIN store_addons = {"a1", "a2"}
    /\ DOMAIN dash[s].addons = {"a1", "a2"}
    /\ Len(store_order_items) = 2

(***************************************************************************)
(* Properties of fetchStoreData.                                           *)
(***************************************************************************)
ListsAndStats(c) == << c.addons, c.orders, c.stats >>

\* A step of a running fetchStoreData either keeps the add-on list, the order
\* list and the stats, or puts the rows of both queries and their aggregates
\* into all three; the step after a failed add-on query keeps them; and the
\* step that ends the fetch clears the loading flag.
FetchAllOrNothing ==
  \A s \in DOMAIN dash :
    LET old == dash[s]
        new == dash'[s] IN
    old.fetch.stage # "none" =>
      /\ \/ ListsAndStats(new) = ListsAndStats(old)
         \/ /\ old.fetch.stage = "orders"
            /\ new.fetch.stage = "none"
            /\ new.addons = old.fetch.addonsData
            /\ new.orders = OrdersWithItems
            /\ StatsAreAggregates(new.stats, new.addons, new.orders)
      /\ (old.fetch.stage = "addons" /\ new.fetch.stage = "none")
           => ListsAndStats(new) = ListsAndStats(old)
      /\ new.fetch.stage = "none" => ~new.loading

Loaded == \A s \in DOMAIN dash : ~dash[s].loading

\* C30: fetchStoreData updates the dashboard state all-or-nothing: if either
\* the add-on query or the order query fails, the add-on list, the order list
\* and the stats all keep their previous values; and in every case the
\* loading flag eventually becomes false.
C30_FetchAllOrNothing == [][FetchAllOrNothing]_vars /\ <>Loaded

C30_Witness ==
  \E s \in DOMAIN dash :
    /\ AtRest(s)
    /\ DOMAIN dash[s].addons = {"a1"}
    /\ dash[s].addons["a1"].name = "n1"
    /\ dash[s].stats.totalAddons = 1
    /\ dash[s].stats.totalOrders = 1
    /\ store_addons["a1"].name = NewName
    /\ store_addons["a1"].price = 7

====
